---- MODULE Spec2Model ----
(***************************************************************************)
(* mdbench: a sequential filesystem metadata benchmark (src/mdbench.py).   *)
(*                                                                         *)
(* The module models                                                       *)
(*   - MovingAvg, the online mean / mean-of-squares accumulator, in exact  *)
(*     rational arithmetic;                                                *)
(*   - the path generators gen_dir / gen_file, on character sequences;     *)
(*   - the timed wrappers (mkdir, mkfile, statfile, chmodfile, mvfile,     *)
(*     statdir, rmfile, rmdir, fsync) acting on a POSIX-like directory     *)
(*     tree, each either succeeding or raising;                            *)
(*   - main(), the driver that runs the phases and reports each of them.   *)
(*                                                                         *)
(* Spec    is the driver: one behaviour is one run of main().              *)
(* SpecAcc feeds arbitrary samples to a single MovingAvg instance.         *)
(***************************************************************************)
EXTENDS Integers, Sequences, FiniteSets, TLC

(***************************************************************************)
(* Bounds of the model.                                                    *)
(***************************************************************************)
\* largest directory count (-d) a run is started with
MaxDirs == 2
\* largest file count (-f) a run is started with
MaxFiles == 2
\* largest sample fed to the MovingAvg under SpecAcc
MaxSample == 2
\* largest number of update() calls under SpecAcc
MaxUpdates == 4

\* the largest ordinal the path generators are compared on
MaxOrdinal == 11

(***************************************************************************)
(* Exact rational numbers [n, d] in lowest terms with d > 0: the values of *)
(* Python's true division (from __future__ import division) without the    *)
(* rounding of float.                                                      *)
(***************************************************************************)
Abs(a) == IF a < 0 THEN -a ELSE a

RECURSIVE GCD(_, _)
GCD(a, b) == IF b = 0 THEN a ELSE GCD(b, a % b)

Rat(n, d) ==
    LET g == GCD(Abs(n), d)
    IN  [n |-> n \div g, d |-> d \div g]

RInt(k) == [n |-> k, d |-> 1]

RAdd(a, b) == Rat(a.n * b.d + b.n * a.d, a.d * b.d)

RSub(a, b) == Rat(a.n * b.d - b.n * a.d, a.d * b.d)

RMul(a, b) == Rat(a.n * b.n, a.d * b.d)

\* a / k for an integer k > 0
RDivInt(a, k) == Rat(a.n, a.d * k)

RLess(a, b) == a.n * b.d < b.n * a.d

(***************************************************************************)
(* class MovingAvg                                                         *)
(***************************************************************************)
MovingAvg == [_avg |-> RInt(0), _count |-> 0, _sigma |-> RInt(0), _total |-> RInt(0)]

avg(self) == self._avg

\* the argument of math.sqrt in std()
Variance(self) == RSub(self._sigma, RMul(self._avg, self._avg))

\* math.sqrt raises ValueError on a negative argument; the root itself is
\* kept as its square
std(self) ==
    IF RLess(Variance(self), RInt(0))
    THEN [raises |-> "ValueError"]
    ELSE [raises |-> "", squared |-> Variance(self)]

\* update() with "self._total = v" for "self._total += v"
update_AssignsTotal(self, v) ==
    [_avg   |-> RDivInt(RAdd(RMul(self._avg, RInt(self._count)), v), self._count + 1),
     _sigma |-> RDivInt(RAdd(RMul(self._sigma, RInt(self._count)), RMul(v, v)),
                        self._count + 1),
     _count |-> self._count + 1,
     _total |-> v]

\* update() without the weight of the old average
update_UnweightedAvg(self, v) ==
    [_avg   |-> RDivInt(RAdd(self._avg, v), self._count + 1),
     _sigma |-> RDivInt(RAdd(RMul(self._sigma, RInt(self._count)), RMul(v, v)),
                        self._count + 1),
     _count |-> self._count + 1,
     _total |-> RAdd(self._total, v)]

update(self, v) ==
    [_avg   |-> RDivInt(RAdd(RMul(self._avg, RInt(self._count)), v), self._count + 1),
     _sigma |-> RDivInt(RAdd(RMul(self._sigma, RInt(self._count)), RMul(v, v)),
                        self._count + 1),
     _count |-> self._count + 1,
     _total |-> RAdd(self._total, v)]

sum(self) == self._total

count(self) == self._count

(***************************************************************************)
(* Strings are sequences of characters, so that '%s/%s%d' formatting and   *)
(* the "_moved" suffix are computed and path equality is string equality.  *)
(***************************************************************************)
DIR == <<"d", "i", "r", ".">>

FILE == <<"f", "i", "l", "e", ".">>

SLASH == <<"/">>

\* the '%d' conversion of a non-negative integer
RECURSIVE Dec(_)
Dec(k) ==
    LET digit(x) == <<"0", "1", "2", "3", "4", "5", "6", "7", "8", "9">>[x + 1]
    IN  IF k < 10 THEN <<digit(k)>> ELSE Dec(k \div 10) \o <<digit(k % 10)>>

gen_dir(base, gen) == base \o SLASH \o DIR \o Dec(gen)

\* gen_file without the ordinal
gen_file_NoOrdinal(base, gen) == base \o SLASH \o FILE

gen_file(base, gen) == base \o SLASH \o FILE \o Dec(gen)

\* "%s_moved" % f
moved(f) == f \o <<"_", "m", "o", "v", "e", "d">>

\* what socket.gethostname() and os.getpid() return in the modelled process
Process == [hostname |-> <<"h">>, pid |-> 7]

\* '%s/mdbench.%s.%d' % (path, socket.gethostname(), os.getpid())
container(path) ==
    path \o SLASH \o <<"m", "d", "b", "e", "n", "c", "h", ".">>
         \o Process.hostname \o <<".">> \o Dec(Process.pid)

(***************************************************************************)
(* The directory tree: a function from the paths that exist to their       *)
(* entries.  The os.* operators give the outcome of the system call:       *)
(* [raises |-> the exception, or "" on success, fs |-> the tree after].    *)
(***************************************************************************)
RECURSIVE LastSlash(_, _)
LastSlash(p, k) == IF k = 0 \/ p[k] = "/" THEN k ELSE LastSlash(p, k - 1)

\* the directory a path is an entry of
Parent(p) == SubSeq(p, 1, LastSlash(p, Len(p)) - 1)

Exists(tree, p) == p \in DOMAIN tree

IsDir(tree, p) == Exists(tree, p) /\ tree[p].kind = "dir"

IsFile(tree, p) == Exists(tree, p) /\ tree[p].kind = "file"

Children(tree, p) == {q \in DOMAIN tree : Parent(q) = p}

Put(tree, p, e) == [q \in DOMAIN tree \cup {p} |-> IF q = p THEN e ELSE tree[q]]

Del(tree, p) == [q \in DOMAIN tree \ {p} |-> tree[q]]

NewDir == [kind |-> "dir", size |-> 0, mode |-> "umask", data |-> "none"]

Raise(e, tree) == [raises |-> e, fs |-> tree]

Return(tree) == [raises |-> "", fs |-> tree]

os_mkdir(tree, d) ==
    IF Exists(tree, d) THEN Raise("FileExistsError", tree)
    ELSE IF ~IsDir(tree, Parent(d)) THEN Raise("FileNotFoundError", tree)
    ELSE Return(Put(tree, d, NewDir))

\* rmdir that reports success and removes nothing
os_rmdir_Keeps(tree, d) ==
    IF ~Exists(tree, d) THEN Raise("FileNotFoundError", tree)
    ELSE IF ~IsDir(tree, d) THEN Raise("NotADirectoryError", tree)
    ELSE IF Children(tree, d) # {} THEN Raise("OSError", tree)
    ELSE Return(tree)

os_rmdir(tree, d) ==
    IF ~Exists(tree, d) THEN Raise("FileNotFoundError", tree)
    ELSE IF ~IsDir(tree, d) THEN Raise("NotADirectoryError", tree)
    ELSE IF Children(tree, d) # {} THEN Raise("OSError", tree)
    ELSE Return(Del(tree, d))

os_remove(tree, f) ==
    IF ~Exists(tree, f) THEN Raise("FileNotFoundError", tree)
    ELSE IF IsDir(tree, f) THEN Raise("IsADirectoryError", tree)
    ELSE Return(Del(tree, f))

os_stat(tree, f) ==
    IF ~Exists(tree, f) THEN Raise("FileNotFoundError", tree) ELSE Return(tree)

os_chmod(tree, f, mode) ==
    IF ~Exists(tree, f) THEN Raise("FileNotFoundError", tree)
    ELSE Return(Put(tree, f, [tree[f] EXCEPT !.mode = mode]))

\* rename that leaves the source in place
os_rename_Copies(tree, src, dst) ==
    IF ~Exists(tree, src) \/ ~IsDir(tree, Parent(dst))
    THEN Raise("FileNotFoundError", tree)
    ELSE IF IsFile(tree, src) /\ IsDir(tree, dst) THEN Raise("IsADirectoryError", tree)
    ELSE Return(Put(tree, dst, tree[src]))

\* rename of a regular file or an empty directory; an existing regular file
\* at dst is replaced silently
os_rename(tree, src, dst) ==
    IF ~Exists(tree, src) \/ ~IsDir(tree, Parent(dst))
    THEN Raise("FileNotFoundError", tree)
    ELSE IF IsFile(tree, src) /\ IsDir(tree, dst) THEN Raise("IsADirectoryError", tree)
    ELSE IF IsDir(tree, src) /\ IsFile(tree, dst) THEN Raise("NotADirectoryError", tree)
    ELSE IF IsDir(tree, dst) /\ Children(tree, dst) # {} THEN Raise("OSError", tree)
    ELSE Return(Put(Del(tree, src), dst, tree[src]))

\* open(fname, "wb"): creates the file, or truncates an existing one
open_wb(tree, fname) ==
    IF IsDir(tree, fname) THEN Raise("IsADirectoryError", tree)
    ELSE IF ~IsDir(tree, Parent(fname)) THEN Raise("FileNotFoundError", tree)
    ELSE Return(Put(tree, fname,
                    [kind |-> "file", size |-> 0, data |-> "none",
                     mode |-> IF Exists(tree, fname) THEN tree[fname].mode
                              ELSE "umask"]))

\* os.fsync(os.open(root, os.O_RDONLY))
os_fsync(tree, root) ==
    IF ~Exists(tree, root) THEN Raise("FileNotFoundError", tree) ELSE Return(tree)

(***************************************************************************)
(* Elapsed time.  A timedelta of us microseconds (below one day).          *)
(***************************************************************************)
timedelta(us) == [days |-> 0, seconds |-> us \div 1000000, microseconds |-> us % 1000000]

total_micros(td) == td.microseconds + (td.seconds + td.days * 24 * 3600) * 1000000

total_millis(td) == Rat(total_micros(td), 1000)

\* the write loop of mkfile: the sizes of the successive f.write calls
RECURSIVE WriteLoop(_, _)
WriteLoop(remaining, chunk) ==
    IF remaining > 0
    THEN LET wsize == IF chunk < remaining THEN chunk ELSE remaining
         IN  <<wsize>> \o WriteLoop(remaining - wsize, chunk)
    ELSE <<>>

RECURSIVE SumSeq(_)
SumSeq(s) == IF s = <<>> THEN 0 ELSE Head(s) + SumSeq(Tail(s))

(***************************************************************************)
(* Python values of the command line.  A str is a sequence of characters;  *)
(* an int, which has no largest value, is its decimal numeral str(n).      *)
(***************************************************************************)
DIGITS == <<"0", "1", "2", "3", "4", "5", "6", "7", "8", "9">>

UPPER == <<"A", "B", "C", "D", "E", "F", "G", "H", "I", "J", "K", "L", "M",
           "N", "O", "P", "Q", "R", "S", "T", "U", "V", "W", "X", "Y", "Z">>

LOWER == <<"a", "b", "c", "d", "e", "f", "g", "h", "i", "j", "k", "l", "m",
           "n", "o", "p", "q", "r", "s", "t", "u", "v", "w", "x", "y", "z">>

IsDigit(c) == \E k \in DOMAIN DIGITS : DIGITS[k] = c

DigitVal(c) == (CHOOSE k \in DOMAIN DIGITS : DIGITS[k] = c) - 1

\* str.lower()
lower(str) ==
    [k \in DOMAIN str |->
        IF \E u \in DOMAIN UPPER : UPPER[u] = str[k]
        THEN LOWER[CHOOSE u \in DOMAIN UPPER : UPPER[u] = str[k]]
        ELSE str[k]]

\* str.startswith(prefix)
startswith(str, prefix) ==
    Len(prefix) <= Len(str) /\ SubSeq(str, 1, Len(prefix)) = prefix

Reverse(s) == [k \in DOMAIN s |-> s[Len(s) + 1 - k]]

\* a numeral without its leading zeros
RECURSIVE StripZeros(_)
StripZeros(num) ==
    IF Len(num) > 1 /\ Head(num) = "0" THEN StripZeros(Tail(num)) ELSE num

\* sum and product of magnitudes given as digit values, lowest digit first
RECURSIVE AddDigits(_, _, _)
AddDigits(a, b, carry) ==
    IF a = <<>> /\ b = <<>> THEN (IF carry = 0 THEN <<>> ELSE <<carry>>)
    ELSE LET x == IF a = <<>> THEN 0 ELSE Head(a)
             y == IF b = <<>> THEN 0 ELSE Head(b)
             t == x + y + carry
         IN  <<t % 10>> \o AddDigits(IF a = <<>> THEN a ELSE Tail(a),
                                     IF b = <<>> THEN b ELSE Tail(b), t \div 10)

RECURSIVE MulDigit(_, _, _)
MulDigit(a, d, carry) ==
    IF a = <<>> THEN (IF carry = 0 THEN <<>> ELSE <<carry>>)
    ELSE LET t == Head(a) * d + carry
         IN  <<t % 10>> \o MulDigit(Tail(a), d, t \div 10)

RECURSIVE MulDigits(_, _)
MulDigits(a, b) ==
    IF b = <<>> THEN <<>>
    ELSE AddDigits(MulDigit(a, Head(b), 0), <<0>> \o MulDigits(a, Tail(b)), 0)

\* x * y on ints
int_mul(x, y) ==
    LET neg(v) == Head(v) = "-"
        mag(v) == IF neg(v) THEN Tail(v) ELSE v
        low(v) == Reverse([k \in DOMAIN mag(v) |-> DigitVal(mag(v)[k])])
        prod   == Reverse(MulDigits(low(x), low(y)))
        num    == IF prod = <<>> THEN <<"0">>
                  ELSE StripZeros([k \in DOMAIN prod |-> DIGITS[prod[k] + 1]])
    IN  IF neg(x) # neg(y) /\ num # <<"0">> THEN <<"-">> \o num ELSE num

\* int(str) for a str without white space: an optional sign, then digits
\* with single underscores between them; anything else raises ValueError
int(str) ==
    LET signed == str # <<>> /\ Head(str) \in {"+", "-"}
        body   == IF signed THEN Tail(str) ELSE str
        wellformed ==
            /\ body # <<>>
            /\ \A k \in DOMAIN body :
                  \/ IsDigit(body[k])
                  \/ /\ body[k] = "_"
                     /\ 1 < k /\ k < Len(body)
                     /\ IsDigit(body[k - 1]) /\ IsDigit(body[k + 1])
        num    == StripZeros(SelectSeq(body, IsDigit))
    IN  IF ~wellformed THEN [raises |-> "ValueError"]
        ELSE [raises |-> "",
              value  |-> IF signed /\ Head(str) = "-" /\ num # <<"0">>
                         THEN <<"-">> \o num ELSE num]

B == 1

K == 1024

M == K * K

G == K * M

DATA_SIZES == [c \in {"b", "k", "m", "g"} |->
                  CASE c = "b" -> B [] c = "k" -> K [] c = "m" -> M [] c = "g" -> G]

\* get_size that drops the suffix without scaling by it
get_size_Unscaled(s) ==
    LET last_symbol == lower(IF s = <<>> THEN s ELSE <<s[Len(s)]>>)
    IN  IF last_symbol = <<>> \/ IsDigit(last_symbol[1]) THEN int(s)
        ELSE IF last_symbol[1] \notin DOMAIN DATA_SIZES THEN [raises |-> "Exception"]
        ELSE int(SubSeq(s, 1, Len(s) - 1))

\* get_size(s): [raises |-> the exception, or "", value |-> the int returned]
get_size(s) ==
    LET last_symbol == lower(IF s = <<>> THEN s ELSE <<s[Len(s)]>>)
    IN  \* "last_symbol in string.digits" is a substring test: '' passes it
        IF last_symbol = <<>> \/ IsDigit(last_symbol[1]) THEN int(s)
        ELSE IF last_symbol[1] \notin DOMAIN DATA_SIZES THEN [raises |-> "Exception"]
        ELSE LET n == int(SubSeq(s, 1, Len(s) - 1))
             IN  IF n.raises # "" THEN n
                 ELSE [raises |-> "",
                       value  |-> int_mul(n.value, Dec(DATA_SIZES[last_symbol[1]]))]

(***************************************************************************)
(* getopt.gnu_getopt(args, shortopts, longopts) of the standard library.   *)
(* Each operator gives [raises, opts, args]: the exception or "", the      *)
(* (option, argument) pairs found so far and the arguments left.           *)
(***************************************************************************)
\* the option strings main() passes
SHORTOPTS == <<"f", ":", "d", ":", "s", ":", "c", ":", "n", "h", "e", "r">>

LONGOPTS ==
    << <<"f", "i", "l", "e", "s", "=">>,
       <<"d", "i", "r", "s", "=">>,
       <<"s", "i", "z", "e", "=">>,
       <<"n", "o", "-", "c", "l", "e", "a", "n">>,
       <<"n", "o", "-", "c", "o", "n", "t", "a", "i", "n", "e", "r">>,
       <<"e", "x", "t", "e", "n", "d", "e", "d", "-", "c", "h", "e", "c", "k", "s">>,
       <<"c", "s", "v", "-", "f", "i", "l", "e", "=">>,
       <<"r", "a", "n", "d", "o", "m", "-", "d", "a", "t", "e">>,
       <<"h", "e", "l", "p">> >>

GetoptError(opts) == [raises |-> "GetoptError", opts |-> opts, args |-> <<>>]

\* short_has_arg(opt, shortopts): [raises, has_arg]
short_has_arg(opt, shortopts) ==
    LET at_ == {k \in DOMAIN shortopts : shortopts[k] = opt /\ opt # ":"}
        k   == CHOOSE x \in at_ : \A y \in at_ : x <= y
    IN  IF at_ = {} THEN [raises |-> "GetoptError"]
        ELSE [raises  |-> "",
              has_arg |-> k + 1 <= Len(shortopts) /\ shortopts[k + 1] = ":"]

RECURSIVE do_shorts(_, _, _, _)
do_shorts(opts, optstring, shortopts, args) ==
    IF optstring = <<>> THEN [raises |-> "", opts |-> opts, args |-> args]
    ELSE LET opt     == Head(optstring)
             rest    == Tail(optstring)
             has_arg == short_has_arg(opt, shortopts)
         IN  IF has_arg.raises # "" THEN GetoptError(opts)
             ELSE IF has_arg.has_arg
             THEN IF rest = <<>>
                  THEN IF args = <<>> THEN GetoptError(opts)
                       ELSE [raises |-> "",
                             opts   |-> Append(opts, <<<<"-", opt>>, Head(args)>>),
                             args   |-> Tail(args)]
                  ELSE [raises |-> "",
                        opts   |-> Append(opts, <<<<"-", opt>>, rest>>),
                        args   |-> args]
             ELSE do_shorts(Append(opts, <<<<"-", opt>>, <<>>>>), rest, shortopts, args)

\* long_has_args(opt, longopts): [raises, has_arg, opt]
long_has_args(opt, longopts) ==
    LET possibilities == SelectSeq(longopts, LAMBDA o : startswith(o, opt))
        unique_match  == possibilities[1]
        has_arg       == unique_match[Len(unique_match)] = "="
    IN  IF possibilities = <<>> THEN [raises |-> "GetoptError"]
        ELSE IF \E k \in DOMAIN possibilities : possibilities[k] = opt
        THEN [raises |-> "", has_arg |-> FALSE, opt |-> opt]
        ELSE IF \E k \in DOMAIN possibilities : possibilities[k] = opt \o <<"=">>
        THEN [raises |-> "", has_arg |-> TRUE, opt |-> opt]
        ELSE IF Len(possibilities) > 1 THEN [raises |-> "GetoptError"]
        ELSE [raises  |-> "",
              has_arg |-> has_arg,
              opt     |-> IF has_arg
                          THEN SubSeq(unique_match, 1, Len(unique_match) - 1)
                          ELSE unique_match]

\* do_longs(opts, opt, longopts, args), opt being the argument after "--"
do_longs(opts, opt, longopts, args) ==
    LET eqs    == {k \in DOMAIN opt : opt[k] = "="}
        eq     == CHOOSE x \in eqs : \A y \in eqs : x <= y
        name   == IF eqs = {} THEN opt ELSE SubSeq(opt, 1, eq - 1)
        given  == eqs # {}
        optarg == IF given THEN SubSeq(opt, eq + 1, Len(opt)) ELSE <<>>
        found  == long_has_args(name, longopts)
    IN  IF found.raises # "" THEN GetoptError(opts)
        ELSE IF found.has_arg
        THEN IF given
             THEN [raises |-> "",
                   opts   |-> Append(opts, <<<<"-", "-">> \o found.opt, optarg>>),
                   args   |-> args]
             ELSE IF args = <<>> THEN GetoptError(opts)
             ELSE [raises |-> "",
                   opts   |-> Append(opts, <<<<"-", "-">> \o found.opt, Head(args)>>),
                   args   |-> Tail(args)]
        ELSE IF given THEN GetoptError(opts)
        ELSE [raises |-> "",
              opts   |-> Append(opts, <<<<"-", "-">> \o found.opt, <<>>>>),
              args   |-> args]

\* the loop of gnu_getopt: options and other arguments in any order, "--"
\* ends the options; [raises, opts, args] with args the program arguments
RECURSIVE gnu_getopt_loop(_, _, _, _, _)
gnu_getopt_loop(opts, prog_args, args, shortopts, longopts) ==
    IF args = <<>> THEN [raises |-> "", opts |-> opts, args |-> prog_args]
    ELSE IF Head(args) = <<"-", "-">>
    THEN [raises |-> "", opts |-> opts, args |-> prog_args \o Tail(args)]
    ELSE IF startswith(Head(args), <<"-", "-">>)
    THEN LET r == do_longs(opts, SubSeq(Head(args), 3, Len(Head(args))), longopts,
                           Tail(args))
         IN  IF r.raises # "" THEN r
             ELSE gnu_getopt_loop(r.opts, prog_args, r.args, shortopts, longopts)
    ELSE IF startswith(Head(args), <<"-">>) /\ Head(args) # <<"-">>
    THEN LET r == do_shorts(opts, Tail(Head(args)), shortopts, Tail(args))
         IN  IF r.raises # "" THEN r
             ELSE gnu_getopt_loop(r.opts, prog_args, r.args, shortopts, longopts)
    ELSE gnu_getopt_loop(opts, Append(prog_args, Head(args)), Tail(args),
                         shortopts, longopts)

gnu_getopt(args, shortopts, longopts) ==
    gnu_getopt_loop(<<>>, <<>>, args, shortopts, longopts)

(***************************************************************************)
(* The state of one run of main().                                         *)
(***************************************************************************)
VARIABLES
    \* the locals of main() that hold the configuration
    dir_count, file_count, file_size, cleanup, createContainer, extendedChecks,
    csvFile, random_data, path, root,
    fs0,        \* the directory tree when the run starts
    fs,         \* the directory tree
    csv,        \* the file at csvFile: [exists, lines]
    stat,       \* the eight module-level MovingAvg instances, by name
    console,    \* the lines printed so far
    pc,         \* the function main() is in, "done", or "failed"
    at,         \* the position inside the phase: "loop", "back", "report"
    i, j,       \* the loop variables of the phase
    clock,      \* the clock readings of the mvfile call in progress or just returned
    err,        \* the exception that ended the run, "" while there is none
    trace,      \* the system calls and reports completed so far, in order
    m,          \* SpecAcc: the MovingAvg under test
    fed,        \* SpecAcc: the samples passed to m.update so far
    ret,        \* SpecAcc: the last method called on m and what it returned
    argv,       \* SpecCli: sys.argv[1:]
    options,    \* SpecCli: the (option, argument) pairs main() has yet to look at
    remainder,  \* SpecCli: the arguments gnu_getopt left over
    status,     \* SpecCli: the exit status, None while the process runs
    size,       \* SpecMkfile: the size argument of mkfile
    chunk,      \* SpecMkfile: the chunk argument of mkfile
    remaining,  \* SpecMkfile: the bytes the write loop has yet to write
    wrote       \* SpecMkfile: the lengths of the writes made so far

config == <<dir_count, file_count, file_size, cleanup, createContainer,
            extendedChecks, csvFile, random_data, path, root, fs0>>

acc == <<m, fed, ret>>

cli == <<argv, options, remainder, status>>

loop == <<size, chunk, remaining, wrote>>

unit == <<acc, cli, loop>>

vars == <<dir_count, file_count, file_size, cleanup, createContainer, extendedChecks,
          csvFile, random_data, path, root, fs0, fs, csv, stat, console, pc, at,
          i, j, clock, err, trace, m, fed, ret, argv, options, remainder, status,
          size, chunk, remaining, wrote>>

None == "None"

Counters == {"dir_creates", "file_creates", "file_stats", "dir_stats",
             "chmod_stats", "mv_stats", "dir_removes", "file_removes"}

\* the phase functions in the order main() can call them, with the counter
\* each passes to fsync and the title main() reports it under
Phases ==
    << [name |-> "make_dirs",   counter |-> "dir_creates",  title |-> "dir creates"],
       [name |-> "make_files",  counter |-> "file_creates", title |-> "file creates"],
       [name |-> "stat_files",  counter |-> "file_stats",   title |-> "file stats"],
       [name |-> "chmod_files", counter |-> "chmod_stats",  title |-> "chmod stats"],
       [name |-> "mv_files",    counter |-> "mv_stats",     title |-> "mv stats"],
       [name |-> "stat_dirs",   counter |-> "dir_stats",    title |-> "dir stats"],
       [name |-> "del_files",   counter |-> "file_removes", title |-> "file removes"],
       [name |-> "del_dirs",    counter |-> "dir_removes",  title |-> "dir removes"] >>

PhaseNames == {Phases[k].name : k \in DOMAIN Phases}

PhaseOf(name) == Phases[CHOOSE k \in DOMAIN Phases : Phases[k].name = name]

FilePhases == {"make_files", "stat_files", "chmod_files", "mv_files", "del_files"}

DirPhases == {"make_dirs", "stat_dirs", "del_dirs"}

\* the elapsed microseconds a timed call can take: below the resolution of
\* the clock, or one millisecond
Latencies == {0, 1000}

\* the sizes -s is given; -r is tried with the size that writes data
FileSizes == {0, 1500}

\* the chunk make_files passes to mkfile
CHUNK == 1024

\* the mode chmodfile passes to os.chmod: the decimal literal 777
CHMOD_MODE == 777

(***************************************************************************)
(* The trees a run can start on: the target directory, empty or holding    *)
(* entries of an earlier run or of the user.                               *)
(***************************************************************************)
OldFile == [kind |-> "file", size |-> 5, mode |-> "umask", data |-> "user"]

InitialTrees(p) ==
    LET empty == [q \in {p} |-> NewDir]
    IN  { empty,
          Put(Put(empty, p \o SLASH \o <<"k">>, OldFile), gen_file(p, 0), OldFile),
          Put(Put(empty, moved(gen_file(p, 0)), OldFile), gen_dir(p, 0), NewDir) }

Init ==
    /\ dir_count \in 0..MaxDirs
    /\ file_count \in 0..MaxFiles
    /\ file_size \in FileSizes
    /\ random_data \in (IF file_size = 0 THEN {FALSE} ELSE BOOLEAN)
    /\ cleanup \in BOOLEAN
    /\ createContainer \in BOOLEAN
    /\ extendedChecks \in BOOLEAN
    /\ csvFile \in {None, "out.csv"}
    /\ path = <<"t">>
    /\ root = IF createContainer THEN container(path) ELSE path
    /\ fs0 \in InitialTrees(path)
    /\ fs = fs0
    /\ csv \in IF csvFile = None THEN {[exists |-> FALSE, lines |-> <<>>]}
              ELSE {[exists |-> TRUE, lines |-> <<"stale">>]}
    /\ stat = [c \in Counters |-> MovingAvg]
    /\ console = <<>>
    /\ pc = "main"
    /\ at = "mkdir"
    /\ i = 0
    /\ j = 0
    /\ clock = <<>>
    /\ err = ""
    /\ trace = <<>>
    /\ m = MovingAvg
    /\ fed = <<>>
    /\ ret = [method |-> ""]
    /\ argv = <<>>
    /\ options = <<>>
    /\ remainder = <<>>
    /\ status = None
    /\ size = 0
    /\ chunk = CHUNK
    /\ remaining = 0
    /\ wrote = <<>>

(***************************************************************************)
(* What the timed wrappers share.                                          *)
(***************************************************************************)
\* the outcome of a system call: res, or an I/O error raised by the system
Sys(res, fault) == IF fault THEN Raise("OSError", fs) ELSE res

\* the bound on the totals: of the calls that feed one counter, at most one
\* takes longer than the resolution of the clock
MayTake(c, d) == d = 0 \/ sum(stat[c]) = RInt(0)

\* a wrapper that feeds the sample to file_creates whatever it timed
Sample_OneCounter(c, start, end) ==
    [stat EXCEPT !["file_creates"] = update(@, total_millis(timedelta(end - start)))]

\* stat.update(total_millis(end - start))
Sample(c, start, end) ==
    [stat EXCEPT ![c] = update(@, total_millis(timedelta(end - start)))]

Event(kind, call, arg) ==
    [kind |-> kind, call |-> call, phase |-> pc, i |-> i, j |-> j, arg |-> arg]

\* the exception is caught and recorded, and the run goes on
Propagate_Swallowed(res) ==
    /\ fs' = res.fs
    /\ err' = res.raises
    /\ UNCHANGED <<csv, stat, console, pc, at, i, j, clock, trace>>

\* an exception leaves the wrapper, the phase function and main(): nothing
\* catches it
Propagate(res) ==
    /\ fs' = res.fs
    /\ err' = res.raises
    /\ pc' = "failed"
    /\ UNCHANGED <<csv, stat, console, at, i, j, clock, trace>>

\* the path a nested phase passes to its wrapper
FilePath ==
    IF dir_count > 0 THEN gen_file(gen_dir(root, i), j) ELSE gen_file(root, j)

\* for j in range(file_count): [for i in range(dir_count):] ...
FileLoopRuns == j < file_count

\* for i in range(count): ...
DirLoopRuns == i < dir_count

\* the loops nested the other way round: directories outside, files inside
FileLoopStep_DirMajor ==
    IF dir_count > 0
    THEN IF j + 1 < file_count \/ i + 1 >= dir_count
         THEN /\ i' = i /\ j' = j + 1
         ELSE /\ i' = i + 1 /\ j' = 0
    ELSE /\ i' = i /\ j' = j + 1

FileLoopStep ==
    IF dir_count > 0
    THEN IF i + 1 < dir_count THEN /\ i' = i + 1 /\ j' = j
                              ELSE /\ i' = 0 /\ j' = j + 1
    ELSE /\ i' = i /\ j' = j + 1

\* a wrapper of a nested phase whose system call leaves start and end d apart
FileOp(c, call, res, d) ==
    IF res.raises # "" THEN Propagate(res)
    ELSE /\ fs' = res.fs
         /\ stat' = Sample(c, 0, d)
         /\ trace' = Append(trace, Event("op", call, FilePath))
         /\ FileLoopStep
         /\ clock' = <<>>
         /\ UNCHANGED <<csv, console, pc, at, err>>

DirOp(c, call, res, d) ==
    IF res.raises # "" THEN Propagate(res)
    ELSE /\ fs' = res.fs
         /\ stat' = Sample(c, 0, d)
         /\ trace' = Append(trace, Event("op", call, gen_dir(root, i)))
         /\ i' = i + 1
         /\ clock' = <<>>
         /\ UNCHANGED <<csv, console, pc, at, j, err>>

(***************************************************************************)
(* The timed wrappers, each called from the loop of its phase function.    *)
(***************************************************************************)
mkdir ==
    /\ pc = "make_dirs" /\ at = "loop" /\ DirLoopRuns
    /\ \E d \in Latencies, fault \in BOOLEAN :
          /\ MayTake("dir_creates", d)
          /\ DirOp("dir_creates", "mkdir", Sys(os_mkdir(fs, gen_dir(root, i)), fault), d)
    /\ UNCHANGED <<config, unit>>

\* failAt = 0: open raises; failAt = k: the k-th write raises, the file is
\* left with what was written; failAt beyond the last write: no error
mkfile ==
    /\ pc = "make_files" /\ at = "loop" /\ FileLoopRuns
    /\ LET writes == WriteLoop(file_size, CHUNK)
       IN  \E d \in Latencies, failAt \in 0..(Len(writes) + 1) :
              LET opened  == Sys(open_wb(fs, FilePath), failAt = 0)
                  nwrites == IF failAt > Len(writes) THEN Len(writes) ELSE failAt - 1
                  written == SumSeq(SubSeq(writes, 1, nwrites))
                  filled  == [opened.fs[FilePath] EXCEPT
                                 !.size = written,
                                 !.data = IF written = 0 THEN "none"
                                          ELSE IF random_data THEN "random"
                                          ELSE "zeros"]
                  res     == IF opened.raises # "" THEN opened
                             ELSE IF failAt <= Len(writes)
                             THEN Raise("OSError", Put(opened.fs, FilePath, filled))
                             ELSE Return(Put(opened.fs, FilePath, filled))
              IN  /\ MayTake("file_creates", d)
                  /\ FileOp("file_creates", "mkfile", res, d)
    /\ UNCHANGED <<config, unit>>

statfile ==
    /\ pc = "stat_files" /\ at = "loop" /\ FileLoopRuns
    /\ \E d \in Latencies, fault \in BOOLEAN :
          /\ MayTake("file_stats", d)
          /\ FileOp("file_stats", "statfile", Sys(os_stat(fs, FilePath), fault), d)
    /\ UNCHANGED <<config, unit>>

chmodfile ==
    /\ pc = "chmod_files" /\ at = "loop" /\ FileLoopRuns
    /\ \E d \in Latencies, fault \in BOOLEAN :
          /\ MayTake("chmod_stats", d)
          /\ FileOp("chmod_stats", "chmodfile",
                    Sys(os_chmod(fs, FilePath, CHMOD_MODE), fault), d)
    /\ UNCHANGED <<config, unit>>

\* mvfile up to the second reading of the clock:
\*   start = now(); os.rename(f, f_moved); end = now()
mvfile_to ==
    /\ pc = "mv_files" /\ at = "loop" /\ FileLoopRuns
    /\ \E d \in Latencies, fault \in BOOLEAN :
          LET res == Sys(os_rename(fs, FilePath, moved(FilePath)), fault)
          IN  /\ MayTake("mv_stats", d)
              /\ IF res.raises # "" THEN Propagate(res)
                 ELSE /\ fs' = res.fs
                      /\ clock' = [start |-> 0, to |-> d, end |-> d]
                      /\ at' = "back"
                      /\ trace' = Append(trace, Event("leg", "mvfile", moved(FilePath)))
                      /\ UNCHANGED <<csv, stat, console, pc, i, j, err>>
    /\ UNCHANGED <<config, unit>>

\* the rest of mvfile:
\*   os.rename(f_moved, f); mv_stats.update(total_millis(end - start))
mvfile_back ==
    /\ pc = "mv_files" /\ at = "back"
    /\ \E d \in Latencies, fault \in BOOLEAN :
          LET res == Sys(os_rename(fs, moved(FilePath), FilePath), fault)
          IN  IF res.raises # "" THEN Propagate(res)
              ELSE /\ fs' = res.fs
                   /\ clock' = [start |-> clock.start, to |-> clock.to,
                                end |-> clock.end, back |-> clock.end + d]
                   /\ stat' = Sample("mv_stats", clock.start, clock.end)
                   /\ at' = "loop"
                   /\ trace' = Append(trace, Event("op", "mvfile", FilePath))
                   /\ FileLoopStep
                   /\ UNCHANGED <<csv, console, pc, err>>
    /\ UNCHANGED <<config, unit>>

statdir ==
    /\ pc = "stat_dirs" /\ at = "loop" /\ DirLoopRuns
    /\ \E d \in Latencies, fault \in BOOLEAN :
          /\ MayTake("dir_stats", d)
          /\ DirOp("dir_stats", "statdir", Sys(os_stat(fs, gen_dir(root, i)), fault), d)
    /\ UNCHANGED <<config, unit>>

rmfile ==
    /\ pc = "del_files" /\ at = "loop" /\ FileLoopRuns
    /\ \E d \in Latencies, fault \in BOOLEAN :
          /\ MayTake("file_removes", d)
          /\ FileOp("file_removes", "rmfile", Sys(os_remove(fs, FilePath), fault), d)
    /\ UNCHANGED <<config, unit>>

rmdir ==
    /\ pc = "del_dirs" /\ at = "loop" /\ DirLoopRuns
    /\ \E d \in Latencies, fault \in BOOLEAN :
          /\ MayTake("dir_removes", d)
          /\ DirOp("dir_removes", "rmdir", Sys(os_rmdir(fs, gen_dir(root, i)), fault), d)
    /\ UNCHANGED <<config, unit>>

\* fsync that feeds no sample to the Accumulator it is given
fsync_Untimed ==
    /\ pc \in PhaseNames /\ at = "loop"
    /\ IF pc \in FilePhases THEN ~FileLoopRuns ELSE ~DirLoopRuns
    /\ \E d \in Latencies, fault \in BOOLEAN :
          LET c   == PhaseOf(pc).counter
              res == Sys(os_fsync(fs, root), fault)
          IN  /\ MayTake(c, d)
              /\ IF res.raises # "" THEN Propagate(res)
                 ELSE /\ fs' = res.fs
                      /\ stat' = stat
                      /\ at' = "report"
                      /\ trace' = Append(trace, Event("fsync", "fsync", root))
                      /\ clock' = <<>>
                      /\ UNCHANGED <<csv, console, pc, i, j, err>>
    /\ UNCHANGED <<config, unit>>

\* fsync(root, stat), the last statement of every phase function
fsync ==
    /\ pc \in PhaseNames /\ at = "loop"
    /\ IF pc \in FilePhases THEN ~FileLoopRuns ELSE ~DirLoopRuns
    /\ \E d \in Latencies, fault \in BOOLEAN :
          LET c   == PhaseOf(pc).counter
              res == Sys(os_fsync(fs, root), fault)
          IN  /\ MayTake(c, d)
              /\ IF res.raises # "" THEN Propagate(res)
                 ELSE /\ fs' = res.fs
                      /\ stat' = Sample(c, 0, d)
                      /\ at' = "report"
                      /\ trace' = Append(trace, Event("fsync", "fsync", root))
                      /\ clock' = <<>>
                      /\ UNCHANGED <<csv, console, pc, i, j, err>>
    /\ UNCHANGED <<config, unit>>

(***************************************************************************)
(* report(title, counter, csvFile)                                         *)
(***************************************************************************)
\* a / b for b > 0
RDiv(a, b) == Rat(a.n * b.d, a.d * b.n)

\* the '.2f' conversion of r >= 0, as a number of hundredths; a tie goes to
\* the even neighbour, as it does for a value a float holds exactly
Format2f(r) ==
    LET x   == r.n * 100
        q   == x \div r.d
        rem == x % r.d
    IN  IF 2 * rem < r.d THEN q
        ELSE IF 2 * rem > r.d THEN q + 1
        ELSE IF q % 2 = 0 THEN q ELSE q + 1

\* the '.2f' conversion of math.sqrt(v), v >= 0, as a number of hundredths
RECURSIVE FormatSqrt2f(_, _)
FormatSqrt2f(v, h) ==
    IF 40000 * v.n < (2 * h + 1) * (2 * h + 1) * v.d THEN h ELSE FormatSqrt2f(v, h + 1)

\* the three numbers of a report line, or the exception their computation
\* raises: counter.avg(), counter.std(), counter.count()/counter.sum()*10**3
ReportValues(title, counter) ==
    IF std(counter).raises # "" THEN [raises |-> std(counter).raises]
    ELSE IF sum(counter).n = 0 THEN [raises |-> "ZeroDivisionError"]
    ELSE [raises  |-> "",
          title   |-> title,
          average |-> Format2f(avg(counter)),
          std     |-> FormatSqrt2f(std(counter).squared, 0),
          IOPS    |-> Format2f(RMul(RDiv(RInt(count(counter)), sum(counter)),
                                    RInt(1000)))]

\* main() with mv_files called before chmod_files
AfterReport_MvFirst(phase) ==
    CASE phase = "make_dirs"   -> [pc |-> "make_files", at |-> "loop"]
      [] phase = "make_files"  -> [pc |-> "stat_files", at |-> "loop"]
      [] phase = "stat_files"  -> IF extendedChecks
                                  THEN [pc |-> "mv_files", at |-> "loop"]
                                  ELSE [pc |-> "stat_dirs", at |-> "loop"]
      [] phase = "mv_files"    -> [pc |-> "chmod_files", at |-> "loop"]
      [] phase = "chmod_files" -> [pc |-> "stat_dirs", at |-> "loop"]
      [] phase = "stat_dirs"   -> IF cleanup
                                  THEN [pc |-> "del_files", at |-> "loop"]
                                  ELSE [pc |-> "main", at |-> "finish"]
      [] phase = "del_files"   -> [pc |-> "del_dirs", at |-> "loop"]
      [] phase = "del_dirs"    -> IF createContainer
                                  THEN [pc |-> "main", at |-> "rmdir"]
                                  ELSE [pc |-> "main", at |-> "finish"]

\* main() that removes the files whatever the cleanup flag says
AfterReport_AlwaysClean(phase) ==
    CASE phase = "make_dirs"   -> [pc |-> "make_files", at |-> "loop"]
      [] phase = "make_files"  -> [pc |-> "stat_files", at |-> "loop"]
      [] phase = "stat_files"  -> IF extendedChecks
                                  THEN [pc |-> "chmod_files", at |-> "loop"]
                                  ELSE [pc |-> "stat_dirs", at |-> "loop"]
      [] phase = "chmod_files" -> [pc |-> "mv_files", at |-> "loop"]
      [] phase = "mv_files"    -> [pc |-> "stat_dirs", at |-> "loop"]
      [] phase = "stat_dirs"   -> [pc |-> "del_files", at |-> "loop"]
      [] phase = "del_files"   -> [pc |-> "del_dirs", at |-> "loop"]
      [] phase = "del_dirs"    -> IF createContainer
                                  THEN [pc |-> "main", at |-> "rmdir"]
                                  ELSE [pc |-> "main", at |-> "finish"]

\* where main() goes when the report of a phase has returned
AfterReport(phase) ==
    CASE phase = "make_dirs"   -> [pc |-> "make_files", at |-> "loop"]
      [] phase = "make_files"  -> [pc |-> "stat_files", at |-> "loop"]
      [] phase = "stat_files"  -> IF extendedChecks
                                  THEN [pc |-> "chmod_files", at |-> "loop"]
                                  ELSE [pc |-> "stat_dirs", at |-> "loop"]
      [] phase = "chmod_files" -> [pc |-> "mv_files", at |-> "loop"]
      [] phase = "mv_files"    -> [pc |-> "stat_dirs", at |-> "loop"]
      [] phase = "stat_dirs"   -> IF cleanup
                                  THEN [pc |-> "del_files", at |-> "loop"]
                                  ELSE [pc |-> "main", at |-> "finish"]
      [] phase = "del_files"   -> [pc |-> "del_dirs", at |-> "loop"]
      [] phase = "del_dirs"    -> IF createContainer
                                  THEN [pc |-> "main", at |-> "rmdir"]
                                  ELSE [pc |-> "main", at |-> "finish"]

report ==
    /\ pc \in PhaseNames /\ at = "report"
    /\ LET phase == PhaseOf(pc)
           line  == ReportValues(phase.title, stat[phase.counter])
       IN  IF line.raises # ""
           THEN Propagate([raises |-> line.raises, fs |-> fs])
           ELSE \E fault \in BOOLEAN :
                   /\ console' = Append(console, line)
                   /\ clock' = <<>>
                   /\ IF csvFile # None /\ fault
                      THEN \* open(csvFile, "a") raises after the line is printed
                           /\ err' = "OSError"
                           /\ pc' = "failed"
                           /\ UNCHANGED <<csv, at, i, j, trace>>
                      ELSE /\ csv' = IF csvFile # None
                                     THEN [exists |-> TRUE,
                                           lines |-> Append(csv.lines, line)]
                                     ELSE csv
                           /\ pc' = AfterReport(pc).pc
                           /\ at' = AfterReport(pc).at
                           /\ i' = 0
                           /\ j' = 0
                           /\ trace' = Append(trace, Event("report", "report", phase.title))
                           /\ err' = err
    /\ UNCHANGED <<config, unit, fs, stat>>

(***************************************************************************)
(* The statements of main() around the phases.                             *)
(***************************************************************************)
\* if createContainer: os.mkdir(root)
main_mkdir ==
    /\ pc = "main" /\ at = "mkdir"
    /\ \E fault \in BOOLEAN :
          LET res == IF createContainer THEN Sys(os_mkdir(fs, root), fault)
                     ELSE Return(fs)
          IN  IF res.raises # "" THEN Propagate(res)
              ELSE /\ fs' = res.fs
                   /\ at' = "csv"
                   /\ trace' = IF createContainer
                               THEN Append(trace, Event("setup", "os.mkdir", root))
                               ELSE trace
                   /\ UNCHANGED <<csv, stat, console, pc, i, j, clock, err>>
    /\ UNCHANGED <<config, unit>>

HEADER == "title,average,std,IOPS"

\* open(csvFile, 'a'): what the file holds is kept
open_w_Keeps(file) == [exists |-> TRUE, lines |-> file.lines]

\* open(csvFile, 'w') on the CSV file: created, or truncated
open_w(file) == [exists |-> TRUE, lines |-> <<>>]

\* if csvFile: open(csvFile, 'w') and write the header; then print the
\* starting time and call make_dirs
main_csv ==
    /\ pc = "main" /\ at = "csv"
    /\ \E fault \in BOOLEAN :
          IF csvFile # None /\ fault
          THEN Propagate([raises |-> "OSError", fs |-> fs])
          ELSE /\ csv' = IF csvFile # None
                         THEN [open_w(csv) EXCEPT !.lines = Append(@, HEADER)]
                         ELSE csv
               /\ console' = Append(console, [title |-> "Starting at: "])
               /\ pc' = "make_dirs"
               /\ at' = "loop"
               /\ i' = 0
               /\ j' = 0
               /\ UNCHANGED <<fs, stat, clock, err, trace>>
    /\ UNCHANGED <<config, unit>>

\* if cleanup and createContainer: os.rmdir(root)
main_rmdir ==
    /\ pc = "main" /\ at = "rmdir"
    /\ \E fault \in BOOLEAN :
          LET res == Sys(os_rmdir(fs, root), fault)
          IN  IF res.raises # "" THEN Propagate(res)
              ELSE /\ fs' = res.fs
                   /\ at' = "finish"
                   /\ trace' = Append(trace, Event("teardown", "os.rmdir", root))
                   /\ UNCHANGED <<csv, stat, console, pc, i, j, clock, err>>
    /\ UNCHANGED <<config, unit>>

\* the closing prints; main() returns
main_finish ==
    /\ pc = "main" /\ at = "finish"
    /\ console' = Append(console, [title |-> "Finished at: "])
    /\ pc' = "done"
    /\ UNCHANGED <<config, unit, fs, csv, stat, at, i, j, clock, err, trace>>

Next ==
    \/ main_mkdir
    \/ main_csv
    \/ mkdir
    \/ mkfile
    \/ statfile
    \/ chmodfile
    \/ mvfile_to
    \/ mvfile_back
    \/ statdir
    \/ rmfile
    \/ rmdir
    \/ fsync
    \/ report
    \/ main_rmdir
    \/ main_finish

Spec == Init /\ [][Next]_vars

(***************************************************************************)
(* SpecCli: main() from its first statement to the call of make_dirs, for  *)
(* a command line drawn from a bounded set.  The locals that hold numbers  *)
(* are Python ints, written as decimal numerals.                           *)
(***************************************************************************)
MaxPositional == 2

DIR_COUNT == 1000
FILE_COUNT == 10
FILE_SIZE == 0

\* the arguments tried after -s and --size=
SizeStrings ==
    { <<"1", "K">>,
      <<"2", "5", "6", "M">>,
      <<"4", "G">>,
      <<"5", "1", "2">>,
      <<"5", "X">>,
      <<"2", "k">>,
      <<"3", "B">>,
      <<"0">>,
      <<"1", "0", "m">>,
      <<"1", "g">>,
      <<"7", "_">>,
      <<"K">> }

SizeParts ==
    {<<>>} \cup {<<<<"-", "s">>, x>> : x \in SizeStrings}
           \cup {<<<<"-", "-", "s", "i", "z", "e", "=">> \o x>> : x \in SizeStrings}

\* the other options tried, one group per command line
FlagParts ==
    { <<>>,
      <<<<"-", "r">>>>,
      <<<<"-", "-", "r", "a", "n", "d", "o", "m", "-", "d", "a", "t", "a">>>>,
      <<<<"-", "-", "r", "a", "n", "d", "o", "m", "-", "d", "a", "t", "e">>>>,
      <<<<"-", "n">>>>,
      <<<<"-", "n", "e">>>>,
      <<<<"-", "-", "n", "o", "-", "c", "l", "e", "a", "n">>>>,
      <<<<"-", "-", "n", "o", "-", "c">>>>,
      <<<<"-", "-", "n", "o", "-", "c", "o", "n", "t">>>>,
      <<<<"-", "-", "e", "x", "t", "e", "n", "d", "e", "d", "-", "c", "h", "e", "c", "k", "s">>>>,
      <<<<"-", "x">>>>,
      <<<<"-", "-", "b", "o", "g", "u", "s">>>>,
      <<<<"-", "h">>>>,
      <<<<"-", "-", "h", "e", "l", "p">>>>,
      <<<<"-", "f">>, <<"2">>>>,
      <<<<"-", "-", "f", "i", "l", "e", "s", "=", "1", "2">>>>,
      <<<<"-", "f">>>>,
      <<<<"-", "d">>, <<"0">>>>,
      <<<<"-", "-", "d", "i", "r", "s">>, <<"x", "1">>>>,
      <<<<"-", "c">>, <<"o">>>>,
      <<<<"-", "-", "c", "s", "v", "-", "f", "i", "l", "e", "=", "o">>>>,
      <<<<"-", "-">>>>,
      <<<<"-", "-", "n", "o", "-", "c", "l", "e", "a", "n", "=", "1">>>> }

Positionals == {[k \in 1..n |-> <<"t">>] : n \in 0..MaxPositional}

CommandLines ==
    {f \o z \o p : f \in FlagParts, z \in SizeParts, p \in Positionals}
        \cup {p \o z \o f : f \in FlagParts, z \in SizeParts, p \in Positionals}

InitCli ==
    /\ argv \in CommandLines
    /\ dir_count = Dec(DIR_COUNT)
    /\ file_count = Dec(FILE_COUNT)
    /\ file_size = Dec(FILE_SIZE)
    /\ cleanup = TRUE
    /\ createContainer = TRUE
    /\ extendedChecks = FALSE
    /\ csvFile = None
    /\ random_data = FALSE
    /\ path = <<>>
    /\ root = <<>>
    /\ fs0 = [q \in {<<"t">>} |-> NewDir]
    /\ fs = fs0
    /\ csv = [exists |-> TRUE, lines |-> <<"stale">>]
    /\ stat = [c \in Counters |-> MovingAvg]
    /\ console = <<>>
    /\ pc = "main"
    /\ at = "getopt"
    /\ i = 0
    /\ j = 0
    /\ clock = <<>>
    /\ err = ""
    /\ trace = <<>>
    /\ m = MovingAvg
    /\ fed = <<>>
    /\ ret = [method |-> ""]
    /\ options = <<>>
    /\ remainder = <<>>
    /\ status = None
    /\ size = 0
    /\ chunk = CHUNK
    /\ remaining = 0
    /\ wrote = <<>>

\* print(__doc__); sys.exit(1), after the lines the caller printed
usage(printed) ==
    /\ console' = console \o printed \o <<[title |-> "usage"]>>
    /\ status' = 1
    /\ pc' = "exit"

\* an exception nothing catches ends the interpreter with status 1
Uncaught(raises) ==
    /\ Propagate([raises |-> raises, fs |-> fs])
    /\ status' = 1

\* options, remainder = getopt.gnu_getopt(sys.argv[1:], ...), and the
\* handler of GetoptError
main_getopt ==
    /\ pc = "main" /\ at = "getopt"
    /\ LET r == gnu_getopt(argv, SHORTOPTS, LONGOPTS)
       IN  IF r.raises # ""
           THEN /\ usage(<<[title |-> "str(err)"]>>)
                /\ UNCHANGED <<options, remainder, at>>
           ELSE /\ options' = r.opts
                /\ remainder' = r.args
                /\ at' = "options"
                /\ UNCHANGED <<console, status, pc>>
    /\ UNCHANGED <<config, acc, loop, argv, fs, csv, stat, i, j, clock, err, trace>>

\* one iteration of for opt, arg in options; options holds the pairs the
\* loop has yet to reach
main_option ==
    /\ pc = "main" /\ at = "options" /\ options # <<>>
    /\ LET opt == Head(options)[1]
           arg == Head(options)[2]
           is(names) == opt \in names
           files == is({<<"-", "f">>, <<"-", "-", "f", "i", "l", "e", "s">>})
           dirs  == is({<<"-", "d">>, <<"-", "-", "d", "i", "r", "s">>})
           sizes == is({<<"-", "s">>, <<"-", "-", "s", "i", "z", "e">>})
           n     == IF sizes THEN get_size(arg) ELSE int(arg)
       IN  IF (files \/ dirs \/ sizes) /\ n.raises # ""
           THEN /\ Uncaught(n.raises)
                /\ UNCHANGED <<config, options>>
           ELSE IF is({<<"-", "h">>, <<"-", "-", "h", "e", "l", "p">>})
           THEN /\ usage(<<>>)
                /\ UNCHANGED <<config, options, fs, csv, stat, at, i, j, clock,
                               err, trace>>
           ELSE /\ file_count' = IF files THEN n.value ELSE file_count
                /\ dir_count' = IF dirs THEN n.value ELSE dir_count
                /\ file_size' = IF sizes THEN n.value ELSE file_size
                /\ cleanup' = IF is({<<"-", "n">>, <<"-", "-", "n", "o", "-", "c", "l", "e", "a", "n">>})
                              THEN FALSE ELSE cleanup
                /\ createContainer' = IF opt = <<"-", "-", "n", "o", "-", "c", "o", "n", "t", "a", "i", "n", "e", "r">>
                                      THEN FALSE ELSE createContainer
                /\ extendedChecks' =
                      IF is({<<"-", "e">>,
                             <<"-", "-", "e", "x", "t", "e", "n", "d", "e", "d", "-", "c", "h", "e", "c", "k", "s">>})
                      THEN TRUE ELSE extendedChecks
                /\ csvFile' = IF is({<<"-", "c">>,
                                     <<"-", "-", "c", "s", "v", "-", "f", "i", "l", "e">>})
                              THEN arg ELSE csvFile
                /\ random_data' =
                      IF is({<<"-", "r">>,
                             <<"-", "-", "r", "a", "n", "d", "o", "m", "-", "d", "a", "t", "a">>})
                      THEN TRUE ELSE random_data
                /\ options' = Tail(options)
                /\ UNCHANGED <<path, root, fs0, fs, csv, stat, console, pc, at, i, j,
                               clock, err, trace, status>>
    /\ UNCHANGED <<acc, loop, argv, remainder>>

\* if len(remainder) != 1: usage(); then path and root are set
main_args ==
    /\ pc = "main" /\ at = "options" /\ options = <<>>
    /\ IF Len(remainder) # 1
       THEN /\ usage(<<>>)
            /\ UNCHANGED <<path, root, at>>
       ELSE /\ path' = remainder[1]
            /\ root' = IF createContainer THEN container(remainder[1])
                       ELSE remainder[1]
            /\ at' = "mkdir"
            /\ UNCHANGED <<console, status, pc>>
    /\ UNCHANGED <<dir_count, file_count, file_size, cleanup, createContainer,
                   extendedChecks, csvFile, random_data, fs0, acc, loop, argv,
                   options, remainder, fs, csv, stat, i, j, clock, err, trace>>

NextCli ==
    \/ main_getopt
    \/ main_option
    \/ main_args
    \/ main_mkdir
    \/ main_csv

SpecCli == InitCli /\ [][NextCli]_vars

(***************************************************************************)
(* SpecMkfile: one call mkfile(fname, size, chunk, random_data=...), a     *)
(* step per statement of its write loop.  The call runs on: the steps are  *)
(* taken as long as one is enabled.                                        *)
(***************************************************************************)
MaxSize == 6

MaxChunk == 4

\* the file the call creates
fname == gen_file(<<"t">>, 0)

InitMkfile ==
    /\ size \in 0..MaxSize
    /\ chunk \in 1..MaxChunk
    /\ random_data \in BOOLEAN
    /\ remaining = 0
    /\ wrote = <<>>
    /\ dir_count = 0
    /\ file_count = 1
    /\ file_size = 0
    /\ cleanup = TRUE
    /\ createContainer = FALSE
    /\ extendedChecks = FALSE
    /\ csvFile = None
    /\ path = <<"t">>
    /\ root = path
    /\ fs0 = [q \in {path} |-> NewDir]
    /\ fs = fs0
    /\ csv = [exists |-> FALSE, lines |-> <<>>]
    /\ stat = [c \in Counters |-> MovingAvg]
    /\ console = <<>>
    /\ pc = "mkfile"
    /\ at = "open"
    /\ i = 0
    /\ j = 0
    /\ clock = <<>>
    /\ err = ""
    /\ trace = <<>>
    /\ m = MovingAvg
    /\ fed = <<>>
    /\ ret = [method |-> ""]
    /\ argv = <<>>
    /\ options = <<>>
    /\ remainder = <<>>
    /\ status = None

\* min that gives its first argument
min_First(a, b) == a

min(a, b) == IF a < b THEN a ELSE b

\* remaining = size; start = datetime.now(); with open(fname, "wb") as f:
mkfile_open ==
    /\ pc = "mkfile" /\ at = "open"
    /\ \E fault \in BOOLEAN :
          LET res == Sys(open_wb(fs, fname), fault)
          IN  IF res.raises # ""
              THEN /\ Propagate(res)
                   /\ UNCHANGED remaining
              ELSE /\ fs' = res.fs
                   /\ remaining' = size
                   /\ at' = "write"
                   /\ clock' = [start |-> 0]
                   /\ UNCHANGED <<csv, stat, console, pc, i, j, err, trace>>
    /\ UNCHANGED <<config, acc, cli, size, chunk, wrote>>

\* one iteration of while remaining > 0
mkfile_write ==
    /\ pc = "mkfile" /\ at = "write"
    /\ remaining > 0
    /\ \E fault \in BOOLEAN :
          LET wsize == min(chunk, remaining)
              data  == IF random_data THEN "random" ELSE "zeros"
          IN  IF fault
              THEN /\ Propagate(Raise("OSError", fs))
                   /\ UNCHANGED <<remaining, wrote>>
              ELSE /\ fs' = [fs EXCEPT ![fname].size = @ + wsize,
                                       ![fname].data = data]
                   /\ wrote' = Append(wrote, wsize)
                   /\ remaining' = remaining - wsize
                   /\ UNCHANGED <<csv, stat, console, pc, at, i, j, clock, err, trace>>
    /\ UNCHANGED <<config, acc, cli, size, chunk>>

\* the loop is left (sync is False in every call) and the with statement
\* closes the file; end = datetime.now()
mkfile_close ==
    /\ pc = "mkfile" /\ at = "write"
    /\ ~(remaining > 0)
    /\ \E d \in Latencies :
          clock' = [start |-> clock.start, end |-> clock.start + d]
    /\ at' = "update"
    /\ UNCHANGED <<config, unit, fs, csv, stat, console, pc, i, j, err, trace>>

\* file_creates.update(total_millis(end - start))
mkfile_update ==
    /\ pc = "mkfile" /\ at = "update"
    /\ stat' = Sample("file_creates", clock.start, clock.end)
    /\ at' = "done"
    /\ trace' = Append(trace, Event("op", "mkfile", fname))
    /\ UNCHANGED <<config, unit, fs, csv, console, pc, i, j, clock, err>>

NextMkfile ==
    \/ mkfile_open
    \/ mkfile_write
    \/ mkfile_close
    \/ mkfile_update

SpecMkfile == InitMkfile /\ [][NextMkfile]_vars /\ WF_vars(NextMkfile)

(***************************************************************************)
(* SpecAcc: a MovingAvg instance m is fed samples and queried, in any      *)
(* order.  The driver does not run.                                        *)
(***************************************************************************)
Samples == 0..MaxSample

InitAcc ==
    /\ dir_count = 0
    /\ file_count = 0
    /\ file_size = 0
    /\ cleanup = TRUE
    /\ createContainer = TRUE
    /\ extendedChecks = FALSE
    /\ csvFile = None
    /\ random_data = FALSE
    /\ path = <<"t">>
    /\ root = container(path)
    /\ fs0 = [q \in {path} |-> NewDir]
    /\ fs = fs0
    /\ csv = [exists |-> FALSE, lines |-> <<>>]
    /\ stat = [c \in Counters |-> MovingAvg]
    /\ console = <<>>
    /\ pc = "unit"
    /\ at = "unit"
    /\ i = 0
    /\ j = 0
    /\ clock = <<>>
    /\ err = ""
    /\ trace = <<>>
    /\ m = MovingAvg
    /\ fed = <<>>
    /\ ret = [method |-> ""]
    /\ argv = <<>>
    /\ options = <<>>
    /\ remainder = <<>>
    /\ status = None
    /\ size = 0
    /\ chunk = CHUNK
    /\ remaining = 0
    /\ wrote = <<>>

driver == <<fs, csv, stat, console, pc, at, i, j, clock, err, trace>>

m_update ==
    /\ pc = "unit"
    /\ Len(fed) < MaxUpdates
    /\ \E v \in Samples :
          /\ m' = update(m, RInt(v))
          /\ fed' = Append(fed, v)
    /\ ret' = [method |-> "update"]
    /\ UNCHANGED <<config, driver, cli, loop>>

m_avg ==
    /\ pc = "unit"
    /\ ret' = [method |-> "avg", value |-> avg(m)]
    /\ UNCHANGED <<config, driver, m, fed, cli, loop>>

m_std ==
    /\ pc = "unit"
    /\ ret' = [method |-> "std", value |-> std(m)]
    /\ UNCHANGED <<config, driver, m, fed, cli, loop>>

m_sum ==
    /\ pc = "unit"
    /\ ret' = [method |-> "sum", value |-> sum(m)]
    /\ UNCHANGED <<config, driver, m, fed, cli, loop>>

m_count ==
    /\ pc = "unit"
    /\ ret' = [method |-> "count", value |-> count(m)]
    /\ UNCHANGED <<config, driver, m, fed, cli, loop>>

NextAcc ==
    \/ m_update
    \/ m_avg
    \/ m_std
    \/ m_sum
    \/ m_count

SpecAcc == InitAcc /\ [][NextAcc]_vars

(***************************************************************************)
(* Vocabulary of the properties.                                           *)
(***************************************************************************)
\* the generated namespace of the run
GenDirs == {gen_dir(root, a) : a \in 0..(dir_count - 1)}

GenFiles ==
    IF dir_count > 0
    THEN {gen_file(gen_dir(root, a), b) : a \in 0..(dir_count - 1), b \in 0..(file_count - 1)}
    ELSE {gen_file(root, b) : b \in 0..(file_count - 1)}

\* D*F, or F when D = 0
NumFiles == IF dir_count > 0 THEN dir_count * file_count ELSE file_count

Calls(name) == SelectSeq(trace, LAMBDA e : e.kind = "op" /\ e.call = name)

InPhase(name) == SelectSeq(trace, LAMBDA e : e.phase = name)

OpsOf(name) == SelectSeq(trace, LAMBDA e : e.phase = name /\ e.kind = "op")

Range(s) == {s[k] : k \in DOMAIN s}

Reported(title) == \E k \in DOMAIN trace : trace[k].kind = "report" /\ trace[k].arg = title

Completed == pc = "done"

(***************************************************************************)
(* C1.  The phases run in the order dir creates, file creates, file stats, *)
(* [chmod, mv], dir stats, [file removes, dir removes]; chmod and mv run   *)
(* if and only if extended checks is enabled, the removals if and only if  *)
(* cleanup is enabled; all operations and the report of a phase are over   *)
(* before the first operation of the next phase; a run that completes has  *)
(* run every phase it is to run.                                           *)
(***************************************************************************)
C1_Order ==
    <<"make_dirs", "make_files", "stat_files", "chmod_files", "mv_files",
      "stat_dirs", "del_files", "del_dirs">>

C1_Rank(name) == CHOOSE k \in DOMAIN C1_Order : C1_Order[k] = name

C1_Occurs(name) ==
    CASE name \in {"chmod_files", "mv_files"} -> extendedChecks
      [] name \in {"del_files", "del_dirs"}   -> cleanup
      [] OTHER                                -> TRUE

C1_PhaseEvents == SelectSeq(trace, LAMBDA e : e.phase \in Range(C1_Order))

C1_ReportedPhase(name) ==
    \E k \in DOMAIN trace : trace[k].kind = "report" /\ trace[k].phase = name

C1_PhaseOrder ==
    LET ev == C1_PhaseEvents
    IN  /\ \A k \in 1..(Len(ev) - 1) :
              \/ /\ ev[k].phase = ev[k + 1].phase
                 /\ ev[k].kind # "report"
              \/ /\ C1_Rank(ev[k].phase) < C1_Rank(ev[k + 1].phase)
                 /\ ev[k].kind = "report"
                 /\ \A r \in (C1_Rank(ev[k].phase) + 1)..(C1_Rank(ev[k + 1].phase) - 1) :
                       ~C1_Occurs(C1_Order[r])
        /\ \A k \in DOMAIN ev : C1_Occurs(ev[k].phase)
        /\ Len(ev) > 0 =>
              \A r \in 1..(C1_Rank(ev[1].phase) - 1) : ~C1_Occurs(C1_Order[r])
        /\ Completed =>
              \A r \in DOMAIN C1_Order :
                 C1_Occurs(C1_Order[r]) => C1_ReportedPhase(C1_Order[r])

C1_Witness ==
    /\ Completed
    /\ extendedChecks /\ cleanup
    /\ dir_count = 2 /\ file_count = 2
    /\ Len(SelectSeq(trace, LAMBDA e : e.kind = "report")) = 8

(***************************************************************************)
(* C2.  In a nested file phase with dir_count > 0 the operation on file j  *)
(* of directory i comes before the one on file j' of directory i' whenever *)
(* j < j', or j = j' and i < i'; no pair (i, j) is visited twice, and when *)
(* the phase has issued its fsync none has been skipped.                   *)
(***************************************************************************)
C2_Before(x, y) == x.j < y.j \/ (x.j = y.j /\ x.i < y.i)

C2_Synced(name) ==
    \E k \in DOMAIN trace : trace[k].phase = name /\ trace[k].kind = "fsync"

C2_NestedOrder ==
    dir_count > 0 =>
        \A name \in FilePhases :
            LET ops == OpsOf(name)
            IN  /\ \A a, b \in DOMAIN ops : a < b => C2_Before(ops[a], ops[b])
                /\ \A a \in DOMAIN ops :
                      ops[a].arg = gen_file(gen_dir(root, ops[a].i), ops[a].j)
                /\ C2_Synced(name) =>
                      {<<e.i, e.j>> : e \in Range(ops)}
                          = (0..(dir_count - 1)) \X (0..(file_count - 1))

C2_Witness ==
    /\ dir_count = 2 /\ file_count = 2
    /\ \A name \in FilePhases : C2_Synced(name) /\ Len(OpsOf(name)) = 4

(***************************************************************************)
(* C3.  A run with cleanup enabled that completes has created exactly D    *)
(* directories and D*F files (F when D = 0), has removed all of them, and  *)
(* the container if it created one, and leaves the tree as it was before   *)
(* the run.                                                                *)
(*   C3_AnyInitialContents: whatever the target path holds at the start.   *)
(*   C3_CleanRun: provided no generated file path, and with extended       *)
(*   checks no '_moved' name of one, exists at the start.                  *)
(***************************************************************************)
C3_CreatedAndRemoved ==
    /\ Len(Calls("mkdir")) = dir_count
    /\ {e.arg : e \in Range(Calls("mkdir"))} = GenDirs
    /\ Len(Calls("mkfile")) = NumFiles
    /\ {e.arg : e \in Range(Calls("mkfile"))} = GenFiles
    /\ (GenDirs \cup GenFiles) \cap DOMAIN fs0 = {}
    /\ {e.arg : e \in Range(Calls("rmfile"))} = GenFiles
    /\ {e.arg : e \in Range(Calls("rmdir"))} = GenDirs
    /\ createContainer <=>
          \E k \in DOMAIN trace : trace[k].kind = "teardown" /\ trace[k].arg = root
    /\ fs = fs0

C3_AnyInitialContents == (Completed /\ cleanup) => C3_CreatedAndRemoved

C3_Clobbered ==
    GenFiles \cup (IF extendedChecks THEN {moved(f) : f \in GenFiles} ELSE {})

C3_CleanRun ==
    (Completed /\ cleanup /\ C3_Clobbered \cap DOMAIN fs0 = {}) => C3_CreatedAndRemoved

C3_Witness ==
    /\ Completed /\ cleanup /\ ~createContainer
    /\ dir_count = 2 /\ file_count = 2
    /\ Cardinality(DOMAIN fs0) > 1
    /\ fs = fs0
    /\ Len(Calls("rmfile")) = 4

(***************************************************************************)
(* C4.  report() never raises a division error: a counter with no samples  *)
(* or a zero total gives a defined value and the run goes on.              *)
(***************************************************************************)
C4_NoDivisionError == err # "ZeroDivisionError"

(***************************************************************************)
(* C5.  In mvfile both renames happen between the two readings of the      *)
(* clock: the first rename is over no earlier than start, the second no    *)
(* later than end.                                                         *)
(***************************************************************************)
C5_BothLegsTimed ==
    "back" \in DOMAIN clock =>
        /\ clock.start <= clock.to
        /\ clock.to <= clock.back
        /\ clock.back <= clock.end

(***************************************************************************)
(* C6.  When the rename phase has completed, every generated file is at    *)
(* its original path with the size it had before the phase and none of the *)
(* '_moved' paths exists; at any time at most one generated file is at its *)
(* '_moved' path; no '_moved' path is a generated file or directory path.  *)
(***************************************************************************)
C6_AtMoved(f) == ~Exists(fs, f) /\ Exists(fs, moved(f))

C6_BeforeMv == Reported("chmod stats") /\ Len(InPhase("mv_files")) = 0

C6_AfterMv == Reported("mv stats") /\ Len(InPhase("del_files")) = 0

C6_RoundTrip ==
    /\ \A f \in GenFiles : moved(f) \notin GenFiles \cup GenDirs
    /\ Cardinality({f \in GenFiles : C6_AtMoved(f)}) <= 1
    /\ C6_BeforeMv => \A f \in GenFiles : IsFile(fs, f) /\ fs[f].size = file_size
    /\ C6_AfterMv =>
          \A f \in GenFiles :
             /\ IsFile(fs, f)
             /\ fs[f].size = file_size
             /\ ~Exists(fs, moved(f))

C6_Witness ==
    /\ C6_AfterMv
    /\ dir_count = 2 /\ file_count = 2 /\ file_size = 1500
    /\ Len(OpsOf("mv_files")) = 4
    /\ \A f \in GenFiles : IsFile(fs, f)

(***************************************************************************)
(* C7.  count() is the number of update() calls made so far and sum() the  *)
(* sum of the values fed so far; avg(), std(), sum() and count() change    *)
(* neither.                                                                *)
(***************************************************************************)
C7_CountAndSum ==
    /\ count(m) = Len(fed)
    /\ sum(m) = RInt(SumSeq(fed))

C7_Witness ==
    /\ Len(fed) = 3
    /\ SumSeq(fed) = 5
    /\ ret.method = "count"
    /\ ret.value = 3

(***************************************************************************)
(* C8.  After N >= 1 updates with non-negative integer samples avg() is    *)
(* their sum over N and the mean of squares is the sum of their squares    *)
(* over N, so the argument of the square root in std() is not negative; N  *)
(* times the same value v gives avg() = v and std() = 0; [a, b] gives      *)
(* avg() = (a + b) / 2.                                                    *)
(***************************************************************************)
RECURSIVE C8_SumSquares(_)
C8_SumSquares(s) == IF s = <<>> THEN 0 ELSE Head(s) * Head(s) + C8_SumSquares(Tail(s))

C8_MeanAndSquares ==
    LET N == Len(fed)
    IN  N >= 1 =>
           /\ avg(m) = Rat(SumSeq(fed), N)
           /\ m._sigma = Rat(C8_SumSquares(fed), N)
           /\ ~RLess(Variance(m), RInt(0))
           /\ std(m).raises = ""
           /\ (\A k \in DOMAIN fed : fed[k] = fed[1]) =>
                 /\ avg(m) = RInt(fed[1])
                 /\ std(m).squared = RInt(0)
           /\ N = 2 => RMul(avg(m), RInt(2)) = RInt(fed[1] + fed[2])

C8_Witness ==
    /\ Len(fed) = 3
    /\ fed[1] # fed[2]
    /\ RLess(RInt(0), Variance(m))
    /\ avg(m).d = 3

(***************************************************************************)
(* C9.  When a filesystem operation of a wrapper or of main() raises, the  *)
(* run ends there: the failing call feeds no sample, prints nothing and    *)
(* removes nothing, and no step of the run follows an exception.           *)
(***************************************************************************)
C9_FilesystemCall == at \in {"loop", "back", "mkdir", "rmdir"}

C9_FailStop ==
    [][ /\ err = ""
        /\ (err' # "" /\ C9_FilesystemCall) =>
              /\ pc' = "failed"
              /\ stat' = stat
              /\ console' = console
              /\ csv' = csv
              /\ trace' = trace
              /\ DOMAIN fs \subseteq DOMAIN fs'
              /\ \A q \in DOMAIN fs : fs'[q].kind = fs[q].kind ]_vars

C9_Witness ==
    /\ pc = "failed"
    /\ err = "OSError"
    /\ at = "back"
    /\ \E f \in GenFiles : C6_AtMoved(f)
    /\ stat["mv_stats"]._count = 1

(***************************************************************************)
(* C10.  With cleanup disabled no file, directory or container is removed, *)
(* neither removal phase is reported, and a run that completes leaves all  *)
(* D directories, all generated files and the container, if it created     *)
(* one, on disk.                                                           *)
(***************************************************************************)
C10_NoClean ==
    ~cleanup =>
        /\ pc \notin {"del_files", "del_dirs"}
        /\ ~(pc = "main" /\ at = "rmdir")
        /\ \A k \in DOMAIN trace : trace[k].call \notin {"rmfile", "rmdir", "os.rmdir"}
        /\ \A k \in DOMAIN console :
              console[k].title \notin {"file removes", "dir removes"}
        /\ stat["file_removes"] = MovingAvg
        /\ stat["dir_removes"] = MovingAvg
        /\ Completed =>
              /\ \A d \in GenDirs : IsDir(fs, d)
              /\ \A f \in GenFiles : IsFile(fs, f)
              /\ Cardinality(GenDirs) = dir_count
              /\ Cardinality(GenFiles) = NumFiles
              /\ createContainer => IsDir(fs, root)

C10_Witness ==
    /\ Completed /\ ~cleanup /\ createContainer
    /\ dir_count = 2 /\ file_count = 2
    /\ \A f \in GenFiles : IsFile(fs, f)

(***************************************************************************)
(* C11: the size argument.                                                 *)
(***************************************************************************)
\* twice a numeral, digit by digit from the right
RECURSIVE C11_TwiceLow(_, _)
C11_TwiceLow(low, carry) ==
    IF low = <<>> THEN (IF carry = 0 THEN <<>> ELSE <<DIGITS[carry + 1]>>)
    ELSE LET t == 2 * DigitVal(Head(low)) + carry
         IN  <<DIGITS[(t % 10) + 1]>> \o C11_TwiceLow(Tail(low), t \div 10)

C11_Twice(num) == StripZeros(Reverse(C11_TwiceLow(Reverse(num), 0)))

RECURSIVE C11_Doubled(_, _)
C11_Doubled(num, times) ==
    IF num = <<>> \/ times = 0 THEN num ELSE C11_Doubled(C11_Twice(num), times - 1)

\* the power of two each suffix letter stands for
C11_Shift == [c \in {"B", "K", "M", "G", "b", "k", "m", "g"} |->
                 CASE c \in {"B", "b"} -> 0 [] c \in {"K", "k"} -> 10
                   [] c \in {"M", "m"} -> 20 [] c \in {"G", "g"} -> 30]

C11_AllDigits(str) == str # <<>> /\ \A k \in DOMAIN str : IsDigit(str[k])

\* the values the documentation gives
C11_Examples ==
    { <<<<"1", "K">>, <<"1", "0", "2", "4">>>>,
      <<<<"2", "5", "6", "M">>, <<"2", "6", "8", "4", "3", "5", "4", "5", "6">>>>,
      <<<<"4", "G">>, <<"4", "2", "9", "4", "9", "6", "7", "2", "9", "6">>>>,
      <<<<"5", "1", "2">>, <<"5", "1", "2">>>> }

\* main() is about to pass x to get_size
C11_Parsing(x) ==
    /\ pc = "main" /\ at = "options" /\ options # <<>>
    /\ Head(options)[1] \in {<<"-", "s">>, <<"-", "-", "s", "i", "z", "e">>}
    /\ Head(options)[2] = x

C11_Returns(value) == pc' = "main" /\ file_size' = value

C11_InputError == pc' = "failed" /\ err' = "Exception" /\ file_size' = file_size

\* C11: get_size returns 1024 for "1K", 268435456 for "256M", 4294967296
\* for "4G" and 512 for "512"; a string of digits gives its value, digits
\* followed by B, K, M or G give the digits times 1, 1024, 1024^2 or 1024^3,
\* and a string that ends in any other character is an input error ("5X").
C11_GetSize ==
    [][\A x \in SizeStrings :
          C11_Parsing(x) =>
             LET last   == x[Len(x)]
                 prefix == SubSeq(x, 1, Len(x) - 1)
             IN  /\ \A e \in C11_Examples : e[1] = x => C11_Returns(e[2])
                 /\ C11_AllDigits(x) => C11_Returns(StripZeros(x))
                 /\ last \in DOMAIN C11_Shift /\ C11_AllDigits(prefix)
                       => C11_Returns(C11_Doubled(StripZeros(prefix), C11_Shift[last]))
                 /\ ~IsDigit(last) /\ last \notin DOMAIN C11_Shift => C11_InputError
                 /\ x = <<"5", "X">> => C11_InputError]_vars

\* "4G" has been parsed, and "7_" or "5X" rejected
C11_Witness ==
    \/ /\ pc = "main" /\ at = "mkdir"
       /\ file_size = <<"4", "2", "9", "4", "9", "6", "7", "2", "9", "6">>
    \/ /\ pc = "failed" /\ at = "options" /\ err = "Exception"

(***************************************************************************)
(* C12: the random-data option.                                            *)
(***************************************************************************)
C12_Spellings == {<<"-", "r">>, <<"-", "-", "r", "a", "n", "d", "o", "m", "-", "d", "a", "t", "a">>}

\* main() is past the option loop and the test of the positional arguments,
\* or has left through usage() or an exception
C12_Parsed == pc # "main" \/ at \notin {"getopt", "options"}

\* C12: -r and --random-data are both accepted: given either one and a
\* path, main() does not exit through usage() and files are to be filled
\* with random bytes.
C12_BothSpellings ==
    \A spelling \in C12_Spellings :
       argv = <<spelling, <<"t">>>> /\ C12_Parsed
          => pc # "exit" /\ random_data = TRUE

(***************************************************************************)
(* C13: errors of the command line.                                        *)
(***************************************************************************)
\* gnu_getopt rejected the command line: an unknown flag, an ambiguous
\* prefix, a missing or unexpected option argument
C13_BadFlag == pc # "main" /\ at = "getopt"

\* the option loop ran to its end and the positional arguments were not one
C13_BadPositionals ==
    pc # "main" /\ at = "options" /\ options = <<>> /\ Len(remainder) # 1

\* the option loop stopped at a size whose last character is no digit and
\* no B, K, M or G
C13_BadSuffix ==
    /\ pc # "main" /\ at = "options" /\ options # <<>>
    /\ Head(options)[1] \in {<<"-", "s">>, <<"-", "-", "s", "i", "z", "e">>}
    /\ LET x == Head(options)[2]
       IN  x # <<>> /\ ~IsDigit(x[Len(x)]) /\ x[Len(x)] \notin DOMAIN C11_Shift

C13_NoSideEffect ==
    /\ fs = fs0
    /\ csv = [exists |-> TRUE, lines |-> <<"stale">>]
    /\ trace = <<>>
    /\ \A c \in Counters : stat[c] = MovingAvg

\* C13: an invalid size suffix, a missing or extra positional argument and
\* an unknown flag each end the process through usage(), with a status
\* other than zero, before the tree or the CSV file is touched.
C13_UsageOnInputError ==
    C13_BadFlag \/ C13_BadPositionals \/ C13_BadSuffix
       => /\ pc = "exit"
          /\ console # <<>> /\ console[Len(console)] = [title |-> "usage"]
          /\ status = 1
          /\ C13_NoSideEffect

(***************************************************************************)
(* C14: the CSV file of a completed run.                                   *)
(***************************************************************************)
\* the titles of the phases a run with these flags executes, in order
C14_Titles ==
    <<"dir creates", "file creates", "file stats">>
       \o (IF extendedChecks THEN <<"chmod stats", "mv stats">> ELSE <<>>)
       \o <<"dir stats">>
       \o (IF cleanup THEN <<"file removes", "dir removes">> ELSE <<>>)

C14_Rows ==
    6 + (IF extendedChecks THEN 2 ELSE 0) - (IF cleanup THEN 0 ELSE 2)

\* the report lines among the lines printed
C14_ReportLines == SelectSeq(console, LAMBDA l : "average" \in DOMAIN l)

\* C14: when a run completes, the CSV file (if one is configured) is the
\* header 'title,average,std,IOPS', with nothing of the file's earlier
\* contents, followed by one row per executed phase in the order of
\* execution: 6 rows, 2 more with extended checks, 2 fewer without cleanup;
\* and as many report lines were printed.
C14_CsvFile ==
    Completed =>
       /\ Len(C14_Titles) = C14_Rows
       /\ Len(C14_ReportLines) = C14_Rows
       /\ \A k \in 1..C14_Rows : C14_ReportLines[k].title = C14_Titles[k]
       /\ csvFile # None =>
             /\ Len(csv.lines) = 1 + C14_Rows
             /\ csv.lines[1] = HEADER
             /\ \A k \in 1..C14_Rows : csv.lines[k + 1] = C14_ReportLines[k]

\* a run with extended checks and without cleanup has completed and left a
\* CSV file of the header and six rows
C14_Witness ==
    /\ Completed /\ csvFile # None /\ extendedChecks /\ ~cleanup
    /\ Len(csv.lines) = 7
    /\ csv.lines[1] = HEADER
    /\ csv.lines[7].title = "dir stats"

(***************************************************************************)
(* C15: the generated paths.                                               *)
(***************************************************************************)
C15_Ordinals == 0..MaxOrdinal

\* the directory and file paths for ordinals into two digits
C15_Dirs == {gen_dir(root, a) : a \in C15_Ordinals}

C15_Files ==
    {gen_file(gen_dir(root, a), b) : a \in C15_Ordinals, b \in C15_Ordinals}

C15_FlatFiles == {gen_file(root, b) : b \in C15_Ordinals}

\* no two ordinals, or pairs of ordinals, give the same path, and no file
\* path is a directory path
C15_Distinct ==
    /\ Cardinality(C15_Dirs) = MaxOrdinal + 1
    /\ Cardinality(C15_Files) = (MaxOrdinal + 1) * (MaxOrdinal + 1)
    /\ Cardinality(C15_FlatFiles) = MaxOrdinal + 1
    /\ C15_Dirs \cap (C15_Files \cup C15_FlatFiles) = {}

\* the paths the operations of a phase were called with
C15_Addressed(name) == {OpsOf(name)[k].arg : k \in DOMAIN OpsOf(name)}

\* C15: for directory count D and file count F the generated paths are D*F
\* distinct file paths (F when D = 0) and D distinct directory paths, no
\* file path being a directory path; every phase that has run to its report
\* has addressed exactly these paths, each one once, so the later phases
\* address what the creation phases created.
C15_Paths ==
    /\ pc = "main" /\ at = "mkdir" => C15_Distinct
    /\ Cardinality(GenDirs) = dir_count
    /\ Cardinality(GenFiles) = NumFiles
    /\ GenDirs \cap GenFiles = {}
    /\ \A k \in DOMAIN Phases :
          Reported(Phases[k].title) =>
             LET name == Phases[k].name
             IN  IF name \in DirPhases
                 THEN /\ C15_Addressed(name) = GenDirs
                      /\ Len(OpsOf(name)) = dir_count
                 ELSE /\ C15_Addressed(name) = GenFiles
                      /\ Len(OpsOf(name)) = NumFiles

\* two directories of two files each were created, and the removal phase
\* has addressed the four files
C15_Witness ==
    /\ dir_count = 2 /\ file_count = 2
    /\ Reported("file removes")
    /\ C15_Addressed("del_files") = C15_Addressed("make_files")
    /\ Cardinality(C15_Addressed("del_files")) = 4

(***************************************************************************)
(* C16: the fsync that closes a phase.                                     *)
(***************************************************************************)
\* the Accumulator each phase function passes to fsync
C16_Own ==
    [make_dirs   |-> "dir_creates",  make_files |-> "file_creates",
     stat_files  |-> "file_stats",   chmod_files |-> "chmod_stats",
     mv_files    |-> "mv_stats",     stat_dirs  |-> "dir_stats",
     del_files   |-> "file_removes", del_dirs   |-> "dir_removes"]

\* the positions in the trace of the fsyncs, operations and report of a phase
C16_Fsyncs(name) ==
    {k \in DOMAIN trace : trace[k].phase = name /\ trace[k].kind = "fsync"}

C16_Ops(name) ==
    {k \in DOMAIN trace : trace[k].phase = name /\ trace[k].kind \in {"op", "leg"}}

C16_Reports(name) ==
    {k \in DOMAIN trace : trace[k].phase = name /\ trace[k].kind = "report"}

\* D for a directory phase, D*F (F when D = 0) for a file phase
C16_Operations(name) == IF name \in DirPhases THEN dir_count ELSE NumFiles

\* C16: a phase issues one fsync of root, after its last operation and
\* before its report, and the time of the fsync is one sample of the phase's
\* own Accumulator: when the phase is at its report, and from then on, the
\* count of that Accumulator is the number of operations of the phase plus
\* one.
C16_ClosingFsync ==
    \A name \in PhaseNames :
       /\ Cardinality(C16_Fsyncs(name)) <= 1
       /\ \A f \in C16_Fsyncs(name) :
             /\ trace[f].arg = root
             /\ \A o \in C16_Ops(name) : o < f
             /\ \A r \in C16_Reports(name) : f < r
       /\ (pc = name /\ at = "report") \/ C16_Reports(name) # {} =>
             /\ Cardinality(C16_Fsyncs(name)) = 1
             /\ Cardinality({k \in C16_Ops(name) : trace[k].kind = "op"})
                   = C16_Operations(name)
             /\ count(stat[C16_Own[name]]) = C16_Operations(name) + 1

\* the rename phase of two directories of two files is at its report: four
\* renames and the fsync have been timed
C16_Witness ==
    /\ pc = "mv_files" /\ at = "report"
    /\ dir_count = 2 /\ file_count = 2
    /\ count(stat["mv_stats"]) = 5
    /\ Cardinality(C16_Fsyncs("mv_files")) = 1

(***************************************************************************)
(* C17: the Accumulators are independent.                                  *)
(***************************************************************************)
\* the phase each Accumulator belongs to, and the title of its report
C17_Category ==
    [dir_creates  |-> [phase |-> "make_dirs",   title |-> "dir creates"],
     file_creates |-> [phase |-> "make_files",  title |-> "file creates"],
     file_stats   |-> [phase |-> "stat_files",  title |-> "file stats"],
     chmod_stats  |-> [phase |-> "chmod_files", title |-> "chmod stats"],
     mv_stats     |-> [phase |-> "mv_files",    title |-> "mv stats"],
     dir_stats    |-> [phase |-> "stat_dirs",   title |-> "dir stats"],
     file_removes |-> [phase |-> "del_files",   title |-> "file removes"],
     dir_removes  |-> [phase |-> "del_dirs",    title |-> "dir removes"]]

\* C17: a step changes an Accumulator only while the phase of its category
\* runs and has not been reported, and then by adding one sample to it: the
\* other seven are unchanged, none is reset, and none changes after its
\* report.
C17_OwnCategory ==
    [][\A c \in Counters :
          stat'[c] # stat[c] =>
             /\ pc = C17_Category[c].phase
             /\ ~Reported(C17_Category[c].title)
             /\ count(stat'[c]) = count(stat[c]) + 1
             /\ ~RLess(sum(stat'[c]), sum(stat[c]))
             /\ \A o \in Counters \ {c} : stat'[o] = stat[o]]_vars

\* the directory stat phase has fed dir_stats after the report of the file
\* stat phase, whose Accumulator still holds what it held at its report
C17_Witness ==
    /\ pc = "stat_dirs"
    /\ dir_count = 2 /\ file_count = 2
    /\ Reported("file stats")
    /\ count(stat["dir_stats"]) = 2
    /\ count(stat["file_stats"]) = 5

(***************************************************************************)
(* C18: the write loop of mkfile.                                          *)
(***************************************************************************)
\* the file is open or has been closed
C18_Opened == at \in {"write", "update", "done"}

\* the with statement has been left without an exception
C18_Closed == pc = "mkfile" /\ at \in {"update", "done"}

C18_Written == SumSeq(wrote)

\* what holds of the writes made so far, in every state
C18_Writes ==
    /\ \A k \in DOMAIN wrote : 1 <= wrote[k] /\ wrote[k] <= chunk
    /\ \A k \in DOMAIN wrote : k < Len(wrote) => wrote[k] = chunk
    /\ C18_Written <= size
    /\ Len(wrote) <= size
    /\ C18_Opened => IsFile(fs, fname) /\ fs[fname].size = C18_Written
    /\ C18_Closed =>
          /\ C18_Written = size
          /\ size = 0 => wrote = <<>> /\ fs[fname].size = 0
          /\ wrote = WriteLoop(size, chunk)

\* one sample, fed once the file is closed
C18_OneSample ==
    /\ count(stat["file_creates"]) = (IF pc = "mkfile" /\ at = "done" THEN 1 ELSE 0)
    /\ count(stat["file_creates"]) = 1 => C18_Closed
    /\ \A c \in Counters \ {"file_creates"} : stat[c] = MovingAvg

\* C18: for every size >= 0 and chunk >= 1 the write loop of mkfile ends,
\* having written size bytes in writes of chunk bytes and a last one of at
\* most chunk bytes, none for size 0; then, the file closed, one sample is
\* fed to file_creates.
C18_WriteLoop ==
    /\ [](C18_Writes /\ C18_OneSample)
    /\ <>(pc = "failed" \/ at = "done")

\* five bytes were written in chunks of two and the sample was fed
C18_Witness ==
    /\ pc = "mkfile" /\ at = "done"
    /\ size = 5 /\ chunk = 2
    /\ wrote = <<2, 2, 1>>
    /\ count(stat["file_creates"]) = 1

====
